---- MODULE Spec2Model ----
(***************************************************************************)
(* Model of the function generated by the bytes_to_type! macro             *)
(* (src/src/lib.rs): pub fn bytes_to_<T>(bytes: &[u8]) -> Result<Vec<T>>.  *)
(*                                                                         *)
(* A call is modelled in the steps the generated body takes: entry, the    *)
(* length check (lines 42-47), the unsafe reinterpretation with its copy   *)
(* (lines 49-55), and the return to the caller.  Each thread of the        *)
(* process runs calls on its own buffer.                                   *)
(*                                                                         *)
(* Values of the target type are wider than the model checker's integers   *)
(* (u64), so a value is kept as its 16-bit limbs, least significant first; *)
(* a one-byte type has a single limb below 256.  The target is             *)
(* little-endian, as in the crate's tests and doc example.                 *)
(***************************************************************************)
EXTENDS Integers, Sequences, FiniteSets

\* ------------------------------------------------------------------ bounds
MaxLen == 3        \* longest enumerated buffer (the test vectors are extra)
MaxAddr == 1       \* buffer start addresses are 8 .. 8 + MaxAddr
NumThreads == 2    \* threads of the concurrent specification

\* ------------------------------------------------------------------ inputs
ByteVals == {1, 255}

RECURSIVE SeqsOfLen(_, _)
SeqsOfLen(S, n) ==
    IF n = 0 THEN {<<>>}
    ELSE {Append(s, x) : s \in SeqsOfLen(S, n - 1), x \in S}

\* The buffers of the crate's tests and of its doc example.
TestVectors == {<<1, 2, 3, 4>>, <<1, 2, 3>>, <<1, 2, 3, 4, 5, 6, 7, 8>>}

Buffers == UNION {SeqsOfLen(ByteVals, n) : n \in 0..MaxLen} \cup TestVectors

ConcBuffers == {<<>>, <<1, 2>>, <<1, 2, 3>>, <<1, 2, 3, 4>>}

\* size_of::<$type>() of the fixed-width numeric types (u8 .. u64, f32, f64)
Widths == {1, 2, 4, 8}

\* Where a buffer can start: an 8-aligned address and the ones after it.
Addrs == {8 + o : o \in 0..MaxAddr}

Threads == 1..NumThreads

\* ------------------------------------------------------------ pure helpers
\* align_of::<$type>() of the primitive numeric types on a 64-bit target.
align_of(w) == w

\* Variant: the check only rejects buffers shorter than one element.
LengthMismatchShort(b, w) == Len(b) < w

\* Variant: the length check is missing.
LengthMismatchNever(b, w) == FALSE

\* bytes.len() % size_of::<$type>() != 0
LengthMismatch(b, w) == Len(b) % w # 0

\* Variant: the message is formatted with the buffer length, not the width.
LengthErrorOfLen(b, w) ==
    [tag |-> "Err", fmt |-> "Bytes length is not a multiple of {}", args |-> <<Len(b)>>]

\* The Err(anyhow!("Bytes length is not a multiple of {}", size_of)) value:
\* the format string and its formatted arguments.
LengthError(b, w) ==
    [tag |-> "Err", fmt |-> "Bytes length is not a multiple of {}", args |-> <<w>>]

\* bytes.len() / size_of::<$type>()
elem_count(b, w) == Len(b) \div w

\* The raw slice handed to to_vec: from_raw_parts(bytes.as_ptr() as *const T, n)
from_raw_parts(p, n) == [data |-> p, len |-> n]

\* A native (little-endian) load of a w-byte value at byte offset off of b.
load(b, off, w) ==
    IF w = 1 THEN <<b[off + 1]>>
    ELSE [j \in 1..(w \div 2) |-> b[off + 2 * j - 1] + 256 * b[off + 2 * j]]

\* .to_vec(): the owned copy of the n elements of the slice, in order.
to_vec(b, w, n) == [i \in 1..n |-> load(b, (i - 1) * w, w)]

Ok(v) == [tag |-> "Ok", vec |-> v]

\* A value of the type that is not the one stored: its lowest bit flipped.
Garbled(v) == [v EXCEPT ![1] = IF v[1] % 2 = 0 THEN v[1] + 1 ELSE v[1] - 1]

Aborted == [tag |-> "Abort"]

\* Is every element of the raw slice at an address the type allows?
Aligned(p, w) == p % align_of(w) = 0

\* What the build can do once from_raw_parts is given a misaligned pointer
\* (undefined behaviour): the precondition check of a debug build or an
\* alignment trap ends the process; a target with unaligned loads returns the
\* stored values; a target without them returns other values.
MisalignedOutcomes(b, w, n) ==
    {Aborted} \cup
    {Ok([i \in 1..n |-> IF i \in S THEN Garbled(to_vec(b, w, n)[i])
                       ELSE to_vec(b, w, n)[i]]) :
        S \in SUBSET (1..n)}

\* The outcomes of lines 49-55 for a buffer b at address p.
ReinterpretOutcomes(b, p, w) ==
    IF Aligned(p, w) THEN {Ok(to_vec(b, w, elem_count(b, w)))}
    ELSE MisalignedOutcomes(b, w, elem_count(b, w))

\* ------------------------------------------------------------------- state
VARIABLES
    pc,       \* per thread: "idle", "validate", "reinterpret", "done", "aborted"
    bytes,    \* per thread: the caller's buffer (contents)
    ptr,      \* per thread: bytes.as_ptr()
    size,     \* per thread: size_of::<$type>() of the instantiated function
    slice,    \* per thread: the raw slice built by from_raw_parts, if any
    result,   \* per thread: the value returned by the call, if any
    prev,     \* an earlier completed call: its buffer, width and result
    alive     \* the process is running

vars == <<pc, bytes, ptr, size, slice, result, prev, alive>>

NoSlice == [data |-> -1, len |-> -1]
NoResult == [tag |-> "None"]
NoCall == [bytes |-> <<>>, size |-> 0, result |-> NoResult]

Init ==
    /\ pc = [t \in Threads |-> "idle"]
    /\ bytes = [t \in Threads |-> <<>>]
    /\ ptr = [t \in Threads |-> 8]
    /\ size = [t \in Threads |-> 1]
    /\ slice = [t \in Threads |-> NoSlice]
    /\ result = [t \in Threads |-> NoResult]
    /\ prev = NoCall
    /\ alive = TRUE

\* ----------------------------------------------------------------- actions
\* Entry of bytes_to_<T>(bytes) with a buffer b at address p.
Enter(t, b, p, w) ==
    /\ alive
    /\ pc[t] = "idle"
    /\ pc' = [pc EXCEPT ![t] = "validate"]
    /\ bytes' = [bytes EXCEPT ![t] = b]
    /\ ptr' = [ptr EXCEPT ![t] = p]
    /\ size' = [size EXCEPT ![t] = w]
    /\ slice' = [slice EXCEPT ![t] = NoSlice]
    /\ result' = [result EXCEPT ![t] = NoResult]
    /\ UNCHANGED <<prev, alive>>

Call(t) == \E b \in Buffers, p \in Addrs, w \in Widths : Enter(t, b, p, w)

CallConc(t) == \E b \in ConcBuffers, p \in Addrs, w \in Widths : Enter(t, b, p, w)

\* Lines 42-47: the length check and its early return.
Validate(t) ==
    /\ alive
    /\ pc[t] = "validate"
    /\ IF LengthMismatch(bytes[t], size[t])
       THEN /\ result' = [result EXCEPT ![t] = LengthError(bytes[t], size[t])]
            /\ pc' = [pc EXCEPT ![t] = "done"]
       ELSE /\ pc' = [pc EXCEPT ![t] = "reinterpret"]
            /\ UNCHANGED result
    /\ UNCHANGED <<bytes, ptr, size, slice, prev, alive>>

\* The process ends while thread t runs: every call in flight ends with it.
Killed(t, u) == u = t \/ pc[u] \in {"validate", "reinterpret"}

\* Variant: the conversion consumes the buffer it was lent.
ReinterpretDraining(t) ==
    /\ alive
    /\ pc[t] = "reinterpret"
    /\ slice' = [slice EXCEPT
                   ![t] = from_raw_parts(ptr[t], elem_count(bytes[t], size[t]))]
    /\ bytes' = [bytes EXCEPT ![t] = <<>>]
    /\ result' = [result EXCEPT
                    ![t] = Ok(to_vec(bytes[t], size[t], elem_count(bytes[t], size[t])))]
    /\ pc' = [pc EXCEPT ![t] = "done"]
    /\ UNCHANGED <<ptr, size, prev, alive>>

\* Lines 49-55: from_raw_parts on the cast pointer, then to_vec.
Reinterpret(t) ==
    /\ alive
    /\ pc[t] = "reinterpret"
    /\ slice' = [slice EXCEPT
                   ![t] = from_raw_parts(ptr[t], elem_count(bytes[t], size[t]))]
    /\ \E r \in ReinterpretOutcomes(bytes[t], ptr[t], size[t]) :
          IF r = Aborted
          THEN /\ alive' = FALSE
               /\ result' = [u \in Threads |->
                               IF Killed(t, u) THEN Aborted ELSE result[u]]
               /\ pc' = [u \in Threads |->
                           IF Killed(t, u) THEN "aborted" ELSE pc[u]]
          ELSE /\ alive' = alive
               /\ result' = [result EXCEPT ![t] = r]
               /\ pc' = [pc EXCEPT ![t] = "done"]
    /\ UNCHANGED <<bytes, ptr, size, prev>>

\* Line 56: the caller takes the result; the call may be remembered as the
\* earlier call that later calls are compared with.
Return(t) ==
    /\ alive
    /\ pc[t] = "done"
    /\ pc' = [pc EXCEPT ![t] = "idle"]
    /\ prev' \in {prev, [bytes |-> bytes[t], size |-> size[t], result |-> result[t]]}
    /\ UNCHANGED <<bytes, ptr, size, slice, result, alive>>

\* One thread making calls one after another.
Next ==
    \/ Call(1)
    \/ Validate(1)
    \/ Reinterpret(1)
    \/ Return(1)

Spec == Init /\ [][Next]_vars

\* Several threads, each making calls on its own buffer.
NextConc ==
    \E t \in Threads :
        \/ CallConc(t)
        \/ Validate(t)
        \/ Reinterpret(t)
        \/ Return(t)

SpecConc == Init /\ [][NextConc]_vars

\* ------------------------------------------------------------------ claims
\* Helpers of the statements below.
Returned(t) == result[t] # NoResult

Limbs(w) == IF w = 1 THEN 1 ELSE w \div 2

\* Byte k (0 = least significant) of a value kept as 16-bit limbs.
byte_at(v, k) == IF k % 2 = 0 THEN v[k \div 2 + 1] % 256 ELSE v[k \div 2 + 1] \div 256

\* The number a value of at most 32 bits stands for.
to_int(v) == IF Len(v) = 1 THEN v[1] ELSE v[1] + 65536 * v[2]

\* The outcomes a call on buffer b at address p with width w has when it is
\* the only call of the process.
SoloOutcomes(b, p, w) ==
    IF Len(b) % w # 0 THEN {LengthError(b, w)} ELSE ReinterpretOutcomes(b, p, w)

\* C1: every call whose buffer length is a multiple of W returns Ok with
\* exactly len(B) / W elements, so that len(B) = len(result) * W.
C1_OkWithExactLength ==
    \A t \in Threads :
        (Returned(t) /\ Len(bytes[t]) % size[t] = 0) =>
            /\ result[t].tag = "Ok"
            /\ Len(result[t].vec) = Len(bytes[t]) \div size[t]
            /\ Len(bytes[t]) = Len(result[t].vec) * size[t]

\* C2: a call whose buffer length is not a multiple of W returns an error
\* that reports W, produces no result sequence, and never reaches the
\* reinterpretation step.
C2_MismatchRejected ==
    \A t \in Threads :
        Len(bytes[t]) % size[t] # 0 =>
            /\ pc[t] # "reinterpret"
            /\ slice[t] = NoSlice
            /\ result[t].tag \in {"None", "Err"}
            /\ pc[t] \in {"done", "idle"} =>
                  /\ result[t].tag = "Err"
                  /\ result[t].args = <<size[t]>>

C2_Witness ==
    /\ pc[1] = "done"
    /\ Len(bytes[1]) % size[1] # 0
    /\ result[1].tag = "Err"
    /\ Len(bytes[1]) > size[1]

\* C3: on a successful conversion, element i of the result is the
\* little-endian value of bytes [i*W, (i+1)*W) of the buffer: its byte k is
\* B[i*W + k]; bytes 1,2,3,4 give the u32 67305985 and 1..8 give
\* [67305985, 134678021].
C3_ElementsDecodeChunks ==
    \A t \in Threads :
        (Returned(t) /\ result[t].tag = "Ok") =>
            /\ \A i \in 0..(Len(result[t].vec) - 1) :
                  /\ Len(result[t].vec[i + 1]) = Limbs(size[t])
                  /\ \A k \in 0..(size[t] - 1) :
                        byte_at(result[t].vec[i + 1], k) = bytes[t][i * size[t] + k + 1]
            /\ (bytes[t] = <<1, 2, 3, 4>> /\ size[t] = 4) =>
                  /\ Len(result[t].vec) = 1
                  /\ to_int(result[t].vec[1]) = 67305985
            /\ (bytes[t] = <<1, 2, 3, 4, 5, 6, 7, 8>> /\ size[t] = 4) =>
                  /\ Len(result[t].vec) = 2
                  /\ to_int(result[t].vec[1]) = 67305985
                  /\ to_int(result[t].vec[2]) = 134678021

\* C4 (as stated): the error of a failed call carries both the offending
\* buffer length and the required width W.
C4_ErrorCarriesLengthAndWidth ==
    \A t \in Threads :
        (Returned(t) /\ result[t].tag = "Err") =>
            /\ \E j \in DOMAIN result[t].args : result[t].args[j] = size[t]
            /\ \E j \in DOMAIN result[t].args : result[t].args[j] = Len(bytes[t])

\* C4 (amended): the error of a failed call carries the required width W as
\* its only payload; the buffer length is not part of it.
C4_ErrorCarriesWidthOnly ==
    \A t \in Threads :
        (Returned(t) /\ result[t].tag = "Err") =>
            /\ Len(bytes[t]) % size[t] # 0
            /\ result[t].fmt = "Bytes length is not a multiple of {}"
            /\ result[t].args = <<size[t]>>
            /\ \A j \in DOMAIN result[t].args : result[t].args[j] # Len(bytes[t])

C4_Witness ==
    /\ pc[1] = "done"
    /\ bytes[1] = <<1, 2, 3>>
    /\ size[1] = 4
    /\ result[1].tag = "Err"

\* C5: whether a call succeeds depends only on len(B) and W: two calls with
\* buffers of the same length and the same W both return Ok or both do not,
\* and a call ends in no other way than Ok or the length-mismatch error.
C5_OutcomeDependsOnLengthOnly ==
    /\ \A t \in Threads :
          Returned(t) =>
              /\ result[t].tag \in {"Ok", "Err"}
              /\ result[t].tag = "Err" <=> Len(bytes[t]) % size[t] # 0
    /\ \A t \in Threads :
          (/\ Returned(t)
           /\ prev # NoCall
           /\ Len(prev.bytes) = Len(bytes[t])
           /\ prev.size = size[t]) =>
              (prev.result.tag = "Ok" <=> result[t].tag = "Ok")

\* C6: no call reads an element of the target type at an address that is
\* not a multiple of the type's alignment.
C6_NoMisalignedRead ==
    \A t \in Threads :
        slice[t] # NoSlice =>
            \A i \in 0..(slice[t].len - 1) :
                (slice[t].data + i * size[t]) % align_of(size[t]) = 0

\* C7: two calls with identical buffer contents and the same W return
\* identical outcomes, whatever calls were made in between.
C7_Deterministic ==
    \A t \in Threads :
        (/\ Returned(t)
         /\ prev # NoCall
         /\ prev.bytes = bytes[t]
         /\ prev.size = size[t]) =>
            prev.result = result[t]

C9_NoInterference ==
    \A t \in Threads :
        Returned(t) => result[t] \in SoloOutcomes(bytes[t], ptr[t], size[t])

\* C10: whenever the reinterpretation step runs, len(B) is a multiple of W,
\* the element count passed is len(B) / W, and the bytes the raw slice covers
\* are exactly the indices 0 .. len(B)-1 of the buffer.
C10_SliceCoversBuffer ==
    \A t \in Threads :
        slice[t] # NoSlice =>
            /\ Len(bytes[t]) % size[t] = 0
            /\ slice[t].data = ptr[t]
            /\ slice[t].len * size[t] = Len(bytes[t])
            /\ {i * size[t] + k : i \in 0..(slice[t].len - 1), k \in 0..(size[t] - 1)}
                  = 0..(Len(bytes[t]) - 1)

C10_Witness ==
    /\ pc[1] = "done"
    /\ slice[1] # NoSlice
    /\ slice[1].len >= 2
    /\ size[1] >= 2

====
